---- MODULE Spec2Model ----
(***************************************************************************)
(* Model of neutron/agent/resource_cache.py: RemoteResourceCache (the      *)
(* per-type cache of server resources with revision-based staleness and    *)
(* deletion tombstones) and RemoteResourceWatcher (the push adapter).      *)
(***************************************************************************)
EXTENDS Integers, Sequences, FiniteSets, TLC

(* ------------------------------------------------------------------ *)
(* Bounds of the model.                                                *)
(* ------------------------------------------------------------------ *)
\* Highest revision_number the server hands out in the general runs.
MaxRev == 2
\* Largest number of resources one bulk_flood_cache pulls over all types.
MaxPull == 1
\* Highest revision_number in the delivery runs (revisions 5, 3, 7 occur).
MaxDeliveryRev == 7
\* Longest sequence of updates delivered for one id in the delivery runs.
MaxLen == 3
\* Largest number of resources in one pushed batch.
MaxBatch == 2

(* ------------------------------------------------------------------ *)
(* Values.                                                             *)
(* ------------------------------------------------------------------ *)
\* Python's None: what dict.get and dict.pop(k, None) give for a missing key.
None == [none |-> TRUE]

\* In the record of a call: an argument the call does not take.
NoArg == "-"

\* RemoteResourceCache.__init__: the tracked types, in construction order.
resource_types == <<"port", "network">>

TrackedTypes == {resource_types[i] : i \in 1..Len(resource_types)}

\* A type the cache was not constructed with.
UntrackedTypes == {"subnet"}

\* The ids that occur, type by type (ids are unique within a type only).
Ids(rtype) == IF rtype = "port" THEN {"a", "b"} ELSE {"a"}

Contexts == {"ctx"}

\* The values a resource's fields take.
Timestamps == {10, 20}

Names == {"x", "y"}

Statuses == {"up", "down"}

\* The two standard attributes that _get_changed_fields never reports.
IgnoredFields == {"revision_number", "updated_at"}

\* The resource objects (OVOs) of a type with the given revisions, update
\* times and names. A port carries a name and a status, a network
\* a name.
Objects(rtype, revs, times, names) ==
    IF rtype = "port"
    THEN [id : Ids(rtype), revision_number : revs, updated_at : times,
          name : names, status : Statuses]
    ELSE [id : Ids(rtype), revision_number : revs, updated_at : times,
          name : names]

\* The resources of the general runs: they differ in id, revision and
\* (ports) status.
Resources(rtype) == Objects(rtype, 1..MaxRev, {10}, {"x"})

\* NeutronObject.to_dict: the mapping field name -> value of the object.
to_dict(obj) == [k \in DOMAIN obj |-> obj[k]]

\* dict.get(key): the value, or None when the key is missing.
dict_get(d, key) == IF key \in DOMAIN d THEN d[key] ELSE None

\* d[key] = value on a dict.
dict_set(d, key, value) ==
    [k \in DOMAIN d \cup {key} |-> IF k = key THEN value ELSE d[k]]

\* d.pop(key, None): the dict without the key.
dict_pop(d, key) == [k \in DOMAIN d \ {key} |-> d[k]]

EmptyDict == [k \in {} |-> None]

(* ------------------------------------------------------------------ *)
(* State.                                                              *)
(* ------------------------------------------------------------------ *)
VARIABLES
    \* self._cache_by_type_and_id: type -> (id -> resource)
    _cache_by_type_and_id,
    \* self._deleted_ids_by_type: type -> set of ids
    _deleted_ids_by_type,
    \* the registry.notify calls made by the last operation, in order
    notified,
    \* the last operation: its name, arguments, the entry it found and how
    \* it ended
    call,
    \* delivery runs only: the updates delivered so far to the observed id
    delivered,
    \* load runs only: what the bulk pulls of the last call returned
    bulk_pull,
    \* batch and concurrent runs only: for each listener thread of the
    \* watcher, the batch it was called with and how far it has come
    listeners

vars == <<_cache_by_type_and_id, _deleted_ids_by_type, notified, call, delivered,
          bulk_pull, listeners>>

\* The shape of the state: each tracked type has a dict from ids to
\* resources of the type, keyed by the resource's own id, and a set of ids.
TypeOK ==
    /\ DOMAIN _cache_by_type_and_id = TrackedTypes
    /\ DOMAIN _deleted_ids_by_type = TrackedTypes
    /\ \A rtype \in TrackedTypes :
          /\ DOMAIN _cache_by_type_and_id[rtype] \subseteq Ids(rtype)
          /\ \A i \in DOMAIN _cache_by_type_and_id[rtype] :
                _cache_by_type_and_id[rtype][i].id = i
          /\ _deleted_ids_by_type[rtype] \subseteq Ids(rtype)
    /\ Len(notified) <= 1

\* RemoteResourceCache._type_cache, for a tracked type (lines 41-42 raise
\* for the others; the callers below test that before they use it).
_type_cache(rtype) == _cache_by_type_and_id[rtype]

\* RemoteResourceCache.get_resource_by_id, for a tracked type.
get_resource_by_id(rtype, obj_id) == dict_get(_type_cache(rtype), obj_id)

(* ------------------------------------------------------------------ *)
(* RemoteResourceCache.                                                *)
(* ------------------------------------------------------------------ *)
\* _is_stale with the strict test (>=) that the note of lines 83-85 rejects.
_is_stale_strict(rtype, resource) ==
    \/ resource.id \in _deleted_ids_by_type[rtype]
    \/ LET existing == dict_get(_type_cache(rtype), resource.id)
       IN  existing # None /\ existing.revision_number >= resource.revision_number

\* _is_stale without the revision test of lines 81-86.
_is_stale_deleted_only(rtype, resource) ==
    resource.id \in _deleted_ids_by_type[rtype]

\* _is_stale without the test of lines 79-80 for a deleted id.
_is_stale_revision_only(rtype, resource) ==
    LET existing == dict_get(_type_cache(rtype), resource.id)
    IN  existing # None /\ existing.revision_number > resource.revision_number

\* RemoteResourceCache._is_stale (a tracked type): the id was deleted, or
\* the live copy has a strictly higher revision number.
_is_stale(rtype, resource) ==
    IF resource.id \in _deleted_ids_by_type[rtype]
    THEN TRUE
    ELSE LET existing == dict_get(_type_cache(rtype), resource.id)
         IN  IF existing # None
                /\ existing.revision_number > resource.revision_number
             THEN TRUE
             ELSE FALSE

\* Which of the two returns of _is_stale fired (line 80 or line 86).
stale_reason(rtype, resource) ==
    IF resource.id \in _deleted_ids_by_type[rtype]
    THEN "StaleDeleted"
    ELSE "StaleRevision"

\* _get_changed_fields without the loop of lines 140-141.
_get_changed_fields_keep_ignored(old, new) ==
    IF old # None
    THEN {k \in DOMAIN to_dict(new) :
            k \notin DOMAIN to_dict(old) \/ to_dict(old)[k] # to_dict(new)[k]}
    ELSE DOMAIN to_dict(new)

\* _get_changed_fields without the discard of line 139.
_get_changed_fields_keep_equal(old, new) ==
    DOMAIN to_dict(new) \ IgnoredFields

\* RemoteResourceCache._get_changed_fields: the fields of new, less those
\* old holds with an equal value, less revision_number and updated_at.
_get_changed_fields(old, new) ==
    LET new_d == to_dict(new)
        changed == DOMAIN new_d
        kept == IF old # None
                THEN LET old_d == to_dict(old)
                     IN  changed \ {k \in DOMAIN old_d :
                                      k \in DOMAIN new_d /\ old_d[k] = new_d[k]}
                ELSE changed
    IN  kept \ IgnoredFields

\* registry.notify(rtype, events.AFTER_UPDATE, ...) of lines 115-118.
AfterUpdate(context, rtype, changed_fields, existing, resource) ==
    [event |-> "after_update", rtype |-> rtype, context |-> context,
     changed_fields |-> changed_fields, existing |-> existing,
     updated |-> resource, resource_id |-> resource.id]

\* registry.notify(rtype, events.AFTER_DELETE, ...) of lines 129-130.
AfterDelete(context, rtype, existing, resource_id) ==
    [event |-> "after_delete", rtype |-> rtype, context |-> context,
     existing |-> existing, resource_id |-> resource_id]

\* The record of a call: what was called, on what, the entry that was live
\* for the id when the call began, and the way the call ended.
Called(op, rtype, resource_id, existing, outcome) ==
    [op |-> op, rtype |-> rtype, resource_id |-> resource_id,
     existing |-> existing, outcome |-> outcome]

\* A call that raised: nothing was stored and nothing notified.
Raises(op, rtype, resource_id, error) ==
    /\ call' = Called(op, rtype, resource_id, None, error)
    /\ notified' = <<>>
    /\ UNCHANGED <<_cache_by_type_and_id, _deleted_ids_by_type>>

\* record_resource_update with lines 100 and 101 swapped: the entry is read
\* after it was replaced.
record_resource_update_read_late(context, rtype, resource) ==
    IF rtype \notin TrackedTypes
    THEN Raises("record_resource_update", rtype, resource.id, "KeyError")
    ELSE IF _is_stale(rtype, resource)
         THEN /\ call' = Called("record_resource_update", rtype, resource.id,
                                dict_get(_type_cache(rtype), resource.id),
                                stale_reason(rtype, resource))
              /\ notified' = <<>>
              /\ UNCHANGED <<_cache_by_type_and_id, _deleted_ids_by_type>>
         ELSE /\ _cache_by_type_and_id' =
                    [_cache_by_type_and_id EXCEPT
                        ![rtype] = dict_set(@, resource.id, resource)]
              /\ UNCHANGED _deleted_ids_by_type
              /\ notified' = <<>>
              /\ call' = Called("record_resource_update", rtype, resource.id,
                                resource, "NoSemanticChange")

\* record_resource_update with the write of line 101 ahead of the staleness
\* test of lines 97-99.
record_resource_update_write_first(context, rtype, resource) ==
    IF rtype \notin TrackedTypes
    THEN Raises("record_resource_update", rtype, resource.id, "KeyError")
    ELSE LET existing == dict_get(_type_cache(rtype), resource.id)
             changed_fields == _get_changed_fields(existing, resource)
         IN  /\ _cache_by_type_and_id' =
                   [_cache_by_type_and_id EXCEPT
                       ![rtype] = dict_set(@, resource.id, resource)]
             /\ UNCHANGED _deleted_ids_by_type
             /\ IF _is_stale(rtype, resource)
                THEN /\ notified' = <<>>
                     /\ call' = Called("record_resource_update", rtype, resource.id,
                                       existing, stale_reason(rtype, resource))
                ELSE IF changed_fields = {}
                     THEN /\ notified' = <<>>
                          /\ call' = Called("record_resource_update", rtype,
                                            resource.id, existing, "NoSemanticChange")
                     ELSE /\ notified' = <<AfterUpdate(context, rtype, changed_fields,
                                                       existing, resource)>>
                          /\ call' = Called("record_resource_update", rtype,
                                            resource.id, existing, "Applied")

\* RemoteResourceCache.record_resource_update.
record_resource_update(context, rtype, resource) ==
    IF rtype \notin TrackedTypes
    THEN \* _is_stale, line 79: self._deleted_ids_by_type[rtype]
         Raises("record_resource_update", rtype, resource.id, "KeyError")
    ELSE LET existing == dict_get(_type_cache(rtype), resource.id)
             changed_fields == _get_changed_fields(existing, resource)
         IN  IF _is_stale(rtype, resource)
             THEN /\ call' = Called("record_resource_update", rtype, resource.id,
                                    existing, stale_reason(rtype, resource))
                  /\ notified' = <<>>
                  /\ UNCHANGED <<_cache_by_type_and_id, _deleted_ids_by_type>>
             ELSE /\ _cache_by_type_and_id' =
                        [_cache_by_type_and_id EXCEPT
                            ![rtype] = dict_set(@, resource.id, resource)]
                  /\ UNCHANGED _deleted_ids_by_type
                  /\ IF changed_fields = {}
                     THEN /\ notified' = <<>>
                          /\ call' = Called("record_resource_update", rtype,
                                            resource.id, existing, "NoSemanticChange")
                     ELSE /\ notified' = <<AfterUpdate(context, rtype, changed_fields,
                                                       existing, resource)>>
                          /\ call' = Called("record_resource_update", rtype,
                                            resource.id, existing, "Applied")

\* record_resource_delete that notifies only when it removed a live entry.
record_resource_delete_quiet(context, rtype, resource_id) ==
    IF rtype \notin TrackedTypes
    THEN Raises("record_resource_delete", rtype, resource_id, "KeyError")
    ELSE LET existing == dict_get(_type_cache(rtype), resource_id)
         IN  /\ _deleted_ids_by_type' =
                   [_deleted_ids_by_type EXCEPT ![rtype] = @ \cup {resource_id}]
             /\ _cache_by_type_and_id' =
                   [_cache_by_type_and_id EXCEPT ![rtype] = dict_pop(@, resource_id)]
             /\ notified' = IF existing # None
                            THEN <<AfterDelete(context, rtype, existing, resource_id)>>
                            ELSE <<>>
             /\ call' = Called("record_resource_delete", rtype, resource_id,
                               existing, "Applied")

\* record_resource_delete without line 126: the entry is popped, the id is
\* not added to the deleted ids.
record_resource_delete_pop_only(context, rtype, resource_id) ==
    IF rtype \notin TrackedTypes
    THEN Raises("record_resource_delete", rtype, resource_id, "KeyError")
    ELSE LET existing == dict_get(_type_cache(rtype), resource_id)
         IN  /\ UNCHANGED _deleted_ids_by_type
             /\ _cache_by_type_and_id' =
                   [_cache_by_type_and_id EXCEPT ![rtype] = dict_pop(@, resource_id)]
             /\ notified' = <<AfterDelete(context, rtype, existing, resource_id)>>
             /\ call' = Called("record_resource_delete", rtype, resource_id,
                               existing, "Applied")

\* RemoteResourceCache.record_resource_delete.
record_resource_delete(context, rtype, resource_id) ==
    IF rtype \notin TrackedTypes
    THEN \* line 126: self._deleted_ids_by_type[rtype]
         Raises("record_resource_delete", rtype, resource_id, "KeyError")
    ELSE LET existing == dict_get(_type_cache(rtype), resource_id)
         IN  /\ _deleted_ids_by_type' =
                   [_deleted_ids_by_type EXCEPT ![rtype] = @ \cup {resource_id}]
             /\ _cache_by_type_and_id' =
                   [_cache_by_type_and_id EXCEPT ![rtype] = dict_pop(@, resource_id)]
             /\ notified' = <<AfterDelete(context, rtype, existing, resource_id)>>
             /\ call' = Called("record_resource_delete", rtype, resource_id,
                               existing, "Applied")

\* The loop of lines 55-56 with a revision test: a pulled resource does not
\* replace a live entry of a higher revision.
RECURSIVE put_all_newer(_, _)
put_all_newer(type_cache, pulled) ==
    IF pulled = <<>>
    THEN type_cache
    ELSE LET existing == dict_get(type_cache, Head(pulled).id)
         IN  IF existing # None
                /\ existing.revision_number > Head(pulled).revision_number
             THEN put_all_newer(type_cache, Tail(pulled))
             ELSE put_all_newer(dict_set(type_cache, Head(pulled).id, Head(pulled)),
                                Tail(pulled))

\* The loop of line 55-56 over one bulk_pull result.
RECURSIVE put_all(_, _)
put_all(type_cache, pulled) ==
    IF pulled = <<>>
    THEN type_cache
    ELSE put_all(dict_set(type_cache, Head(pulled).id, Head(pulled)), Tail(pulled))

\* bulk_flood_cache that stores nothing at all when one of its bulk pulls
\* raises.
bulk_flood_cache_atomic(pulls, fail_at) ==
    /\ _cache_by_type_and_id' =
          [rtype \in TrackedTypes |->
             LET i == CHOOSE j \in 1..Len(resource_types) : resource_types[j] = rtype
             IN  IF fail_at = 0
                 THEN put_all(_cache_by_type_and_id[rtype], pulls[i])
                 ELSE _cache_by_type_and_id[rtype]]
    /\ UNCHANGED _deleted_ids_by_type
    /\ notified' = <<>>
    /\ call' = Called("bulk_flood_cache", NoArg, NoArg, None,
                      IF fail_at = 0 THEN "Loaded" ELSE "PullError")

\* RemoteResourceCache.bulk_flood_cache. pulls[i] is what bulk_pull returns
\* for resource_types[i]; fail_at is the index of the type whose bulk_pull
\* raises (0: none does), which ends the loop of line 54 there.
bulk_flood_cache(pulls, fail_at) ==
    LET loaded(i) == fail_at = 0 \/ i < fail_at
    IN  /\ _cache_by_type_and_id' =
              [rtype \in TrackedTypes |->
                 LET i == CHOOSE j \in 1..Len(resource_types) : resource_types[j] = rtype
                 IN  IF loaded(i)
                     THEN put_all(_cache_by_type_and_id[rtype], pulls[i])
                     ELSE _cache_by_type_and_id[rtype]]
        /\ UNCHANGED _deleted_ids_by_type
        /\ notified' = <<>>
        /\ call' = Called("bulk_flood_cache", NoArg, NoArg, None,
                          IF fail_at = 0 THEN "Loaded" ELSE "PullError")

\* dict.values(): the values of a dict.
dict_values(d) == {d[k] : k \in DOMAIN d}

\* The record of a call that returned a value to its caller.
Returned(op, rtype, resource_id, value) ==
    [op |-> op, rtype |-> rtype, resource_id |-> resource_id,
     existing |-> None, outcome |-> "Returned", returned |-> value]

\* A call of get_resource_by_id that answers None for an untracked type
\* instead of raising in _type_cache.
get_resource_by_id_lenient(rtype, obj_id) ==
    /\ call' = Returned("get_resource_by_id", rtype, obj_id,
                        IF rtype \in TrackedTypes
                        THEN get_resource_by_id(rtype, obj_id)
                        ELSE None)
    /\ notified' = <<>>
    /\ UNCHANGED <<_cache_by_type_and_id, _deleted_ids_by_type>>

\* A call of RemoteResourceCache.get_resource_by_id: _type_cache raises
\* RuntimeError for an untracked type (lines 41-42), else dict.get answers.
get_resource_by_id_call(rtype, obj_id) ==
    IF rtype \notin TrackedTypes
    THEN Raises("get_resource_by_id", rtype, obj_id, "RuntimeError")
    ELSE /\ call' = Returned("get_resource_by_id", rtype, obj_id,
                             get_resource_by_id(rtype, obj_id))
         /\ notified' = <<>>
         /\ UNCHANGED <<_cache_by_type_and_id, _deleted_ids_by_type>>

\* The matcher functions callers hand to match_resources_with_func.
Matchers == {"any", "bumped"}

\* matcher(o) for the matcher of that name.
matches(matcher, o) ==
    IF matcher = "any" THEN TRUE ELSE o.revision_number > 1

\* RemoteResourceCache.match_resources_with_func, for a tracked type: the
\* cached resources of the type the matcher accepts (a list in the code, in
\* the order of the dict; the order is not modelled). The matcher is a
\* function on the resources it is applied to.
match_resources_with_func(rtype, matcher) ==
    {r \in dict_values(_type_cache(rtype)) : matcher[r]}

\* match_resources_with_func with the matcher of that name.
matched(rtype, matcher) ==
    match_resources_with_func(
        rtype, [o \in dict_values(_type_cache(rtype)) |-> matches(matcher, o)])

\* get_resources whose matcher accepts a resource as soon as one filter key
\* has the value asked for (any in the place of all, line 64).
get_resources_any(rtype, filters) ==
    {r \in dict_values(_type_cache(rtype)) :
        \E k \in DOMAIN filters : filters[k] = r[k]}

\* RemoteResourceCache.get_resources, for a tracked type: the matcher of
\* line 64 compares every filter key with the attribute of that name.
get_resources(rtype, filters) ==
    match_resources_with_func(
        rtype, [o \in dict_values(_type_cache(rtype)) |->
                  \A k \in DOMAIN filters : filters[k] = o[k]])

\* A call of match_resources_with_func.
match_resources_with_func_call(rtype, matcher) ==
    IF rtype \notin TrackedTypes
    THEN Raises("match_resources_with_func", rtype, NoArg, "RuntimeError")
    ELSE /\ call' = Returned("match_resources_with_func", rtype, NoArg,
                             matched(rtype, matcher))
         /\ notified' = <<>>
         /\ UNCHANGED <<_cache_by_type_and_id, _deleted_ids_by_type>>

\* A call of get_resources.
get_resources_call(rtype, filters) ==
    IF rtype \notin TrackedTypes
    THEN Raises("get_resources", rtype, NoArg, "RuntimeError")
    ELSE /\ call' = Returned("get_resources", rtype, NoArg,
                             get_resources(rtype, filters))
         /\ notified' = <<>>
         /\ UNCHANGED <<_cache_by_type_and_id, _deleted_ids_by_type>>

(* ------------------------------------------------------------------ *)
(* RemoteResourceWatcher.                                              *)
(* ------------------------------------------------------------------ *)
\* The listener threads consume_in_threads starts.
Listeners == {1, 2}

\* A listener thread that is in no resource_change_handler call.
Idle ==
    [pc |-> "idle", context |-> NoArg, rtype |-> NoArg, event_type |-> NoArg,
     resources |-> <<>>, existing |-> None]

\* events_rpc.CREATED, UPDATED and DELETED.
EventTypes == {"created", "updated", "deleted"}

\* The listener thread is called with a batch: resource_change_handler is
\* entered with its arguments (line 171).
resource_change_handler(l, context, rtype, resources, event_type) ==
    /\ listeners[l].pc = "idle"
    /\ listeners' = [listeners EXCEPT
                        ![l] = [pc |-> "loop", context |-> context, rtype |-> rtype,
                                event_type |-> event_type, resources |-> resources,
                                existing |-> None]]
    /\ call' = Called("resource_change_handler", rtype, NoArg, None, "Entered")
    /\ notified' = <<>>
    /\ UNCHANGED <<_cache_by_type_and_id, _deleted_ids_by_type>>

\* One turn of the loop that takes every event for an update but the
\* UPDATED ones.
resource_change_handler_loop_updated_only(l) ==
    LET batch == listeners[l]
        r == Head(batch.resources)
    IN  /\ batch.pc = "loop"
        /\ batch.resources # <<>>
        /\ IF batch.event_type # "updated"
           THEN record_resource_delete(batch.context, batch.rtype, r.id)
           ELSE record_resource_update(batch.context, batch.rtype, r)
        /\ listeners' = [listeners EXCEPT ![l].resources = Tail(@)]

\* One turn of the loop of lines 172-177: the next resource of the batch
\* goes to record_resource_delete or to record_resource_update.
resource_change_handler_loop(l) ==
    LET batch == listeners[l]
        r == Head(batch.resources)
    IN  /\ batch.pc = "loop"
        /\ batch.resources # <<>>
        /\ IF batch.event_type = "deleted"
           THEN record_resource_delete(batch.context, batch.rtype, r.id)
           ELSE record_resource_update(batch.context, batch.rtype, r)
        /\ listeners' = [listeners EXCEPT ![l].resources = Tail(@)]

\* The loop is over: resource_change_handler returns.
resource_change_handler_return(l) ==
    /\ listeners[l].pc = "loop"
    /\ listeners[l].resources = <<>>
    /\ listeners' = [listeners EXCEPT ![l] = Idle]
    /\ call' = Called("resource_change_handler", listeners[l].rtype, NoArg, None,
                      "Done")
    /\ notified' = <<>>
    /\ UNCHANGED <<_cache_by_type_and_id, _deleted_ids_by_type>>

(* ------------------------------------------------------------------ *)
(* The calls statement by statement, as a listener thread runs them    *)
(* when other threads run between its statements (no lock is taken).   *)
(* ------------------------------------------------------------------ *)
\* The resource the listener's loop is at.
current(l) == Head(listeners[l].resources)

\* The listener is at the top of the loop with an update to make.
at_update(l) ==
    /\ listeners[l].pc = "loop"
    /\ listeners[l].resources # <<>>
    /\ listeners[l].event_type # "deleted"

\* The listener is at the top of the loop with a delete to make.
at_delete(l) ==
    /\ listeners[l].pc = "loop"
    /\ listeners[l].resources # <<>>
    /\ listeners[l].event_type = "deleted"

\* record_resource_update, lines 97-99: the staleness test and its return.
record_resource_update_is_stale(l) ==
    LET rtype == listeners[l].rtype
        resource == current(l)
    IN  /\ at_update(l)
        /\ IF _is_stale(rtype, resource)
           THEN /\ listeners' = [listeners EXCEPT ![l].resources = Tail(@)]
                /\ call' = Called("record_resource_update", rtype, resource.id,
                                  dict_get(_type_cache(rtype), resource.id),
                                  stale_reason(rtype, resource))
                /\ notified' = <<>>
           ELSE /\ listeners' = [listeners EXCEPT ![l].pc = "line_100"]
                /\ UNCHANGED <<call, notified>>
        /\ UNCHANGED <<_cache_by_type_and_id, _deleted_ids_by_type>>

\* record_resource_update, line 100: existing = ...get(resource.id).
record_resource_update_existing(l) ==
    /\ listeners[l].pc = "line_100"
    /\ listeners' = [listeners EXCEPT
                        ![l].pc = "line_101",
                        ![l].existing = dict_get(_type_cache(listeners[l].rtype),
                                                 current(l).id)]
    /\ UNCHANGED <<_cache_by_type_and_id, _deleted_ids_by_type, call, notified>>

\* record_resource_update, line 101: the write.
record_resource_update_write(l) ==
    /\ listeners[l].pc = "line_101"
    /\ _cache_by_type_and_id' =
          [_cache_by_type_and_id EXCEPT
              ![listeners[l].rtype] = dict_set(@, current(l).id, current(l))]
    /\ listeners' = [listeners EXCEPT ![l].pc = "line_102"]
    /\ UNCHANGED <<_deleted_ids_by_type, call, notified>>

\* record_resource_update, lines 102-118: the changed fields and the notify.
record_resource_update_notify(l) ==
    LET rtype == listeners[l].rtype
        resource == current(l)
        existing == listeners[l].existing
        changed_fields == _get_changed_fields(existing, resource)
    IN  /\ listeners[l].pc = "line_102"
        /\ IF changed_fields = {}
           THEN /\ notified' = <<>>
                /\ call' = Called("record_resource_update", rtype, resource.id,
                                  existing, "NoSemanticChange")
           ELSE /\ notified' = <<AfterUpdate(listeners[l].context, rtype,
                                             changed_fields, existing, resource)>>
                /\ call' = Called("record_resource_update", rtype, resource.id,
                                  existing, "Applied")
        /\ listeners' = [listeners EXCEPT
                            ![l].pc = "loop", ![l].resources = Tail(@),
                            ![l].existing = None]
        /\ UNCHANGED <<_cache_by_type_and_id, _deleted_ids_by_type>>

\* record_resource_delete, line 126: the id joins the deleted ids.
record_resource_delete_add(l) ==
    /\ at_delete(l)
    /\ _deleted_ids_by_type' =
          [_deleted_ids_by_type EXCEPT ![listeners[l].rtype] = @ \cup {current(l).id}]
    /\ listeners' = [listeners EXCEPT ![l].pc = "line_127"]
    /\ UNCHANGED <<_cache_by_type_and_id, call, notified>>

\* record_resource_delete, line 127: existing = ...pop(resource_id, None).
record_resource_delete_pop(l) ==
    /\ listeners[l].pc = "line_127"
    /\ _cache_by_type_and_id' =
          [_cache_by_type_and_id EXCEPT
              ![listeners[l].rtype] = dict_pop(@, current(l).id)]
    /\ listeners' = [listeners EXCEPT
                        ![l].pc = "line_129",
                        ![l].existing = dict_get(_type_cache(listeners[l].rtype),
                                                 current(l).id)]
    /\ UNCHANGED <<_deleted_ids_by_type, call, notified>>

\* record_resource_delete, lines 129-130: the notify.
record_resource_delete_notify(l) ==
    /\ listeners[l].pc = "line_129"
    /\ notified' = <<AfterDelete(listeners[l].context, listeners[l].rtype,
                                 listeners[l].existing, current(l).id)>>
    /\ call' = Called("record_resource_delete", listeners[l].rtype, current(l).id,
                      listeners[l].existing, "Applied")
    /\ listeners' = [listeners EXCEPT
                        ![l].pc = "loop", ![l].resources = Tail(@),
                        ![l].existing = None]
    /\ UNCHANGED <<_cache_by_type_and_id, _deleted_ids_by_type>>

(* ------------------------------------------------------------------ *)
(* The general runs: any sequence of calls on one cache.               *)
(* ------------------------------------------------------------------ *)
AllTypes == TrackedTypes \cup UntrackedTypes

\* The sequences over S of length at most n.
SeqsUpTo(S, n) == UNION {[1..m -> S] : m \in 0..n}

\* What one bulk_pull of a type returns: up to n of the server's resources
\* of the type, one per id (the server holds one row per id).
PullResults(rtype, n) ==
    {s \in SeqsUpTo(Resources(rtype), n) :
        \A i, j \in 1..Len(s) : s[i].id = s[j].id => i = j}

\* What the bulk pulls of one bulk_flood_cache return, type by type from
\* resource_types[i] up to the last type pulled, with at most budget
\* resources in all; a type that is not pulled has no result.
RECURSIVE PullsFrom(_, _, _)
PullsFrom(i, last, budget) ==
    IF i > Len(resource_types)
    THEN {<<>>}
    ELSE UNION {{<<s>> \o rest : rest \in PullsFrom(i + 1, last, budget - Len(s))} :
                  s \in IF i <= last
                        THEN PullResults(resource_types[i], budget)
                        ELSE {<<>>}}

\* The bulk pulls of a bulk_flood_cache whose pull of type fail_at raises.
Pulls(fail_at) ==
    PullsFrom(1, IF fail_at = 0 THEN Len(resource_types) ELSE fail_at - 1, MaxPull)

\* No bulk pull was made by the last call.
NoPulls == [pulls |-> [i \in 1..Len(resource_types) |-> <<>>], fail_at |-> 0]

Init ==
    /\ _cache_by_type_and_id = [rt \in TrackedTypes |-> EmptyDict]
    /\ _deleted_ids_by_type = [rt \in TrackedTypes |-> {}]
    /\ notified = <<>>
    /\ call = Called("__init__", NoArg, NoArg, None, "Applied")
    /\ delivered = <<>>
    /\ bulk_pull = NoPulls
    /\ listeners = [l \in Listeners |-> Idle]

Update ==
    \E context \in Contexts, rtype \in AllTypes :
        \E resource \in Resources(rtype) :
            /\ record_resource_update(context, rtype, resource)
            /\ UNCHANGED <<delivered, bulk_pull, listeners>>

Delete ==
    \E context \in Contexts, rtype \in AllTypes :
        \E resource_id \in Ids(rtype) :
            /\ record_resource_delete(context, rtype, resource_id)
            /\ UNCHANGED <<delivered, bulk_pull, listeners>>

BulkFlood ==
    \E fail_at \in 0..Len(resource_types) :
        \E pulls \in Pulls(fail_at) :
            /\ bulk_flood_cache(pulls, fail_at)
            /\ UNCHANGED <<delivered, bulk_pull, listeners>>

\* The filters of get_resources: an expected value for none, one or two of
\* the attributes id and status (ports) or id and name (other types).
Filters(rtype) ==
    IF rtype = "port"
    THEN {EmptyDict}
         \cup {[id |-> i] : i \in Ids(rtype)}
         \cup {[status |-> v] : v \in Statuses}
         \cup {[id |-> i, status |-> v] : i \in Ids(rtype), v \in Statuses}
    ELSE {EmptyDict}
         \cup {[id |-> i] : i \in Ids(rtype)}
         \cup {[name |-> v] : v \in Names}
         \cup {[id |-> i, name |-> v] : i \in Ids(rtype), v \in Names}

Get ==
    \E rtype \in AllTypes :
        \E obj_id \in Ids(rtype) :
            /\ get_resource_by_id_call(rtype, obj_id)
            /\ UNCHANGED <<delivered, bulk_pull, listeners>>

Match ==
    \E rtype \in AllTypes, matcher \in Matchers :
        /\ match_resources_with_func_call(rtype, matcher)
        /\ UNCHANGED <<delivered, bulk_pull, listeners>>

Find ==
    \E rtype \in AllTypes :
        \E filters \in Filters(rtype) :
            /\ get_resources_call(rtype, filters)
            /\ UNCHANGED <<delivered, bulk_pull, listeners>>

Next == Update \/ Delete \/ BulkFlood \/ Get \/ Match \/ Find

Spec == Init /\ [][Next]_vars

(* ------------------------------------------------------------------ *)
(* The push runs: updates and deletes of one id per type, with         *)
(* resources that differ in every field.                               *)
(* ------------------------------------------------------------------ *)
PushedId == "a"

PushResources(rtype) ==
    {r \in Objects(rtype, 1..MaxRev, Timestamps, Names) : r.id = PushedId}

PushUpdate ==
    \E context \in Contexts, rtype \in TrackedTypes :
        \E resource \in PushResources(rtype) :
            /\ record_resource_update(context, rtype, resource)
            /\ UNCHANGED <<delivered, bulk_pull, listeners>>

PushDelete ==
    \E context \in Contexts, rtype \in TrackedTypes :
        /\ record_resource_delete(context, rtype, PushedId)
        /\ UNCHANGED <<delivered, bulk_pull, listeners>>

NextPush == PushUpdate \/ PushDelete

SpecPush == Init /\ [][NextPush]_vars

(* ------------------------------------------------------------------ *)
(* The delivery runs: up to MaxLen updates, in any order of revision,  *)
(* for one id of one type that is never deleted.                       *)
(* ------------------------------------------------------------------ *)
DeliveryResources(rtype) ==
    {r \in Objects(rtype, 1..MaxDeliveryRev, Timestamps,
                   IF rtype = "port" THEN {"x"} ELSE Names) : r.id = PushedId}

\* What a delivery leaves in the history: the resource, how the call ended
\* and what it notified.
Delivery(resource, outcome, notifications) ==
    [resource |-> resource, outcome |-> outcome, notified |-> notifications]

Deliver ==
    \E context \in Contexts, rtype \in TrackedTypes :
        \E resource \in DeliveryResources(rtype) :
            /\ Len(delivered) < MaxLen
            /\ delivered = <<>> \/ rtype = call.rtype
            /\ record_resource_update(context, rtype, resource)
            /\ delivered' = Append(delivered,
                                   Delivery(resource, call'.outcome, notified'))
            /\ UNCHANGED <<bulk_pull, listeners>>

NextDelivery == Deliver

SpecDelivery == Init /\ [][NextDelivery]_vars

(* ------------------------------------------------------------------ *)
(* The load runs: the calls of the general runs on the tracked types,  *)
(* with the results of the bulk pulls of a bulk_flood_cache kept.      *)
(* ------------------------------------------------------------------ *)
LoadUpdate ==
    \E context \in Contexts, rtype \in TrackedTypes :
        \E resource \in Resources(rtype) :
            /\ record_resource_update(context, rtype, resource)
            /\ bulk_pull' = NoPulls
            /\ UNCHANGED <<delivered, listeners>>

LoadDelete ==
    \E context \in Contexts, rtype \in TrackedTypes :
        \E resource_id \in Ids(rtype) :
            /\ record_resource_delete(context, rtype, resource_id)
            /\ bulk_pull' = NoPulls
            /\ UNCHANGED <<delivered, listeners>>

LoadBulkFlood ==
    \E fail_at \in 0..Len(resource_types) :
        \E pulls \in Pulls(fail_at) :
            /\ bulk_flood_cache(pulls, fail_at)
            /\ bulk_pull' = [pulls |-> pulls, fail_at |-> fail_at]
            /\ UNCHANGED <<delivered, listeners>>

LoadGet ==
    \E rtype \in TrackedTypes :
        \E obj_id \in Ids(rtype) :
            /\ get_resource_by_id_call(rtype, obj_id)
            /\ bulk_pull' = NoPulls
            /\ UNCHANGED <<delivered, listeners>>

LoadMatch ==
    \E rtype \in TrackedTypes, matcher \in Matchers :
        /\ match_resources_with_func_call(rtype, matcher)
        /\ bulk_pull' = NoPulls
        /\ UNCHANGED <<delivered, listeners>>

LoadFind ==
    \E rtype \in TrackedTypes :
        \E filters \in Filters(rtype) :
            /\ get_resources_call(rtype, filters)
            /\ bulk_pull' = NoPulls
            /\ UNCHANGED <<delivered, listeners>>

NextLoad ==
    LoadUpdate \/ LoadDelete \/ LoadBulkFlood \/ LoadGet \/ LoadMatch \/ LoadFind

SpecLoad == Init /\ [][NextLoad]_vars

(* ------------------------------------------------------------------ *)
(* The batch runs: one listener thread, called with one batch after    *)
(* the other.                                                          *)
(* ------------------------------------------------------------------ *)
\* The resources pushed in the batch runs: they differ in id and revision.
BatchResources(rtype) ==
    {r \in Resources(rtype) : rtype = "port" => r.status = "up"}

\* The batches pushed for a type: up to MaxBatch of its resources.
Batches(rtype) == SeqsUpTo(BatchResources(rtype), MaxBatch)

BatchListener == 1

BatchEnter ==
    \E context \in Contexts, rtype \in TrackedTypes, event_type \in EventTypes :
        \E resources \in Batches(rtype) :
            /\ resource_change_handler(BatchListener, context, rtype, resources,
                                       event_type)
            /\ UNCHANGED <<delivered, bulk_pull>>

BatchLoop ==
    /\ resource_change_handler_loop(BatchListener)
    /\ UNCHANGED <<delivered, bulk_pull>>

BatchReturn ==
    /\ resource_change_handler_return(BatchListener)
    /\ UNCHANGED <<delivered, bulk_pull>>

NextBatch == BatchEnter \/ BatchLoop \/ BatchReturn

SpecBatch == Init /\ [][NextBatch]_vars

(* ------------------------------------------------------------------ *)
(* The concurrent runs: the listener threads are called with pushes    *)
(* for one port and run their calls statement by statement, in any     *)
(* interleaving.                                                       *)
(* ------------------------------------------------------------------ *)
ConcurrentType == "port"

\* The pushes of the concurrent runs: one resource of the observed id.
ConcurrentBatches ==
    {<<r>> : r \in {x \in BatchResources(ConcurrentType) : x.id = PushedId}}

ConcurrentEnter ==
    \E l \in Listeners, context \in Contexts, event_type \in EventTypes :
        \E resources \in ConcurrentBatches :
            /\ resource_change_handler(l, context, ConcurrentType, resources,
                                       event_type)
            /\ UNCHANGED <<delivered, bulk_pull>>

ConcurrentIsStale ==
    \E l \in Listeners :
        record_resource_update_is_stale(l) /\ UNCHANGED <<delivered, bulk_pull>>

ConcurrentExisting ==
    \E l \in Listeners :
        record_resource_update_existing(l) /\ UNCHANGED <<delivered, bulk_pull>>

ConcurrentWrite ==
    \E l \in Listeners :
        record_resource_update_write(l) /\ UNCHANGED <<delivered, bulk_pull>>

ConcurrentNotify ==
    \E l \in Listeners :
        record_resource_update_notify(l) /\ UNCHANGED <<delivered, bulk_pull>>

ConcurrentDeleteAdd ==
    \E l \in Listeners :
        record_resource_delete_add(l) /\ UNCHANGED <<delivered, bulk_pull>>

ConcurrentDeletePop ==
    \E l \in Listeners :
        record_resource_delete_pop(l) /\ UNCHANGED <<delivered, bulk_pull>>

ConcurrentDeleteNotify ==
    \E l \in Listeners :
        record_resource_delete_notify(l) /\ UNCHANGED <<delivered, bulk_pull>>

ConcurrentReturn ==
    \E l \in Listeners :
        resource_change_handler_return(l) /\ UNCHANGED <<delivered, bulk_pull>>

NextConcurrent ==
    \/ ConcurrentEnter
    \/ ConcurrentIsStale
    \/ ConcurrentExisting
    \/ ConcurrentWrite
    \/ ConcurrentNotify
    \/ ConcurrentDeleteAdd
    \/ ConcurrentDeletePop
    \/ ConcurrentDeleteNotify
    \/ ConcurrentReturn

SpecConcurrent == Init /\ [][NextConcurrent]_vars

(* ------------------------------------------------------------------ *)
(* The event runs: up to MaxLen updates and deletes, in any order and  *)
(* with repeats, for one id of one type.                               *)
(* ------------------------------------------------------------------ *)
DeliverDelete ==
    \E context \in Contexts, rtype \in TrackedTypes :
        /\ Len(delivered) < MaxLen
        /\ delivered = <<>> \/ rtype = call.rtype
        /\ record_resource_delete(context, rtype, PushedId)
        /\ delivered' = Append(delivered, Delivery(None, call'.outcome, notified'))
        /\ UNCHANGED <<bulk_pull, listeners>>

NextEvents == Deliver \/ DeliverDelete

SpecEvents == Init /\ [][NextEvents]_vars

(* ------------------------------------------------------------------ *)
(* Properties.                                                         *)
(* ------------------------------------------------------------------ *)
\* The last call was a record_resource_update on a tracked type.
UpdateCalled ==
    call.op = "record_resource_update" /\ call.rtype \in TrackedTypes

\* The last call was a record_resource_delete on a tracked type.
DeleteCalled ==
    call.op = "record_resource_delete" /\ call.rtype \in TrackedTypes

\* This step is the call record_resource_update(context, rtype, resource).
UpdateStep(context, rtype, resource) ==
    /\ call'.op = "record_resource_update"
    /\ call'.rtype = rtype
    /\ call'.resource_id = resource.id
    /\ record_resource_update(context, rtype, resource)

\* This step is the call record_resource_delete(context, rtype, resource_id).
DeleteStep(context, rtype, resource_id) ==
    /\ call'.op = "record_resource_delete"
    /\ call'.rtype = rtype
    /\ call'.resource_id = resource_id
    /\ record_resource_delete(context, rtype, resource_id)

\* The entry that is live for the id of the last call.
Stored == get_resource_by_id(call.rtype, call.resource_id)

\* C1 (monotonicity): across a record_resource_update call, every id that is
\* live before and after it keeps or raises its stored revision_number.
C1_Monotonicity ==
    [][call'.op = "record_resource_update" =>
         \A rtype \in TrackedTypes :
            \A i \in DOMAIN _cache_by_type_and_id[rtype]
                       \cap DOMAIN _cache_by_type_and_id'[rtype] :
               _cache_by_type_and_id'[rtype][i].revision_number
                  >= _cache_by_type_and_id[rtype][i].revision_number]_vars

\* C1 witness: an update has replaced a live entry by one of a higher
\* revision.
C1_Witness ==
    /\ UpdateCalled
    /\ call.existing # None
    /\ Stored # None
    /\ Stored.revision_number > call.existing.revision_number

\* C2 (tombstone finality), as claimed: after a record_resource_update for an
\* id that record_resource_delete has tombstoned, the id is absent from the
\* cache and nothing was notified.
C2_TombstoneFinality ==
    (UpdateCalled /\ call.resource_id \in _deleted_ids_by_type[call.rtype])
        => (Stored = None /\ notified = <<>>)

\* C3 (store invariant), as claimed: no id is both tombstoned and live in
\* the same type.
C3_StoreInvariant ==
    \A rtype \in TrackedTypes :
        _deleted_ids_by_type[rtype] \cap DOMAIN _cache_by_type_and_id[rtype] = {}

\* The fields, other than revision_number and updated_at, in which two
\* resources differ.
Differing(a, b) ==
    {k \in (DOMAIN a \cup DOMAIN b) \ IgnoredFields :
        k \notin DOMAIN a \/ k \notin DOMAIN b \/ a[k] # b[k]}

\* The revision of the i-th update delivered.
DeliveredRev(i) == delivered[i].resource.revision_number

\* The revisions delivered so far, in order.
DeliveredRevs == [i \in 1..Len(delivered) |-> DeliveredRev(i)]

\* C4 (unordered delivery tolerance): of the updates delivered to one
\* never-deleted id, exactly those of a revision strictly below an earlier
\* one are ignored as StaleRevision, the stored revision is the highest
\* delivered, and revisions 5, 3, 7 with differing fields end with 7 stored,
\* a create notification for 5, an update notification for 7 and 3 ignored.
C4_UnorderedDelivery ==
    LET n == Len(delivered)
        first == delivered[1].resource
        third == delivered[3].resource
    IN  /\ \A i \in 1..n :
              /\ delivered[i].outcome \in {"Applied", "NoSemanticChange", "StaleRevision"}
              /\ delivered[i].outcome = "StaleRevision"
                   <=> \E j \in 1..(i - 1) : DeliveredRev(j) > DeliveredRev(i)
        /\ n > 0 =>
              /\ Stored # None
              /\ \A i \in 1..n : Stored.revision_number >= DeliveredRev(i)
              /\ \E i \in 1..n : Stored.revision_number = DeliveredRev(i)
        /\ (DeliveredRevs = <<5, 3, 7>> /\ Differing(first, third) # {}) =>
              /\ Stored = third
              /\ Stored.revision_number = 7
              /\ Len(delivered[1].notified) = 1
              /\ delivered[1].notified[1].event = "after_update"
              /\ delivered[1].notified[1].existing = None
              /\ delivered[1].notified[1].updated = first
              /\ delivered[2].outcome = "StaleRevision"
              /\ delivered[2].notified = <<>>
              /\ Len(delivered[3].notified) = 1
              /\ delivered[3].notified[1].event = "after_update"
              /\ delivered[3].notified[1].existing = first
              /\ delivered[3].notified[1].updated = third

\* C4 witness: revisions 5, 3, 7 were delivered in that order, the first and
\* the last differing in a field.
C4_Witness ==
    /\ DeliveredRevs = <<5, 3, 7>>
    /\ Differing(delivered[1].resource, delivered[3].resource) # {}
    /\ Stored.revision_number = 7

\* C5 (no-op suppression): a record_resource_update of a resource that is
\* not stale and equals the live entry in every field but revision_number
\* and updated_at stores the incoming resource and notifies nothing.
C5_NoOpSuppression ==
    [][\A context \in Contexts, rtype \in TrackedTypes :
          \A resource \in PushResources(rtype) :
             LET before == get_resource_by_id(rtype, resource.id)
             IN  (/\ UpdateStep(context, rtype, resource)
                  /\ resource.id \notin _deleted_ids_by_type[rtype]
                  /\ before # None
                  /\ before.revision_number <= resource.revision_number
                  /\ Differing(before, resource) = {})
                 => /\ dict_get(_cache_by_type_and_id'[rtype], resource.id) = resource
                    /\ notified' = <<>>]_vars

\* C5 witness: an update equal to the live entry but for a higher revision
\* and another update time was stored without a notification.
C5_Witness ==
    /\ UpdateCalled
    /\ call.outcome = "NoSemanticChange"
    /\ call.existing # None
    /\ Stored # None
    /\ Stored.revision_number > call.existing.revision_number
    /\ Stored.updated_at # call.existing.updated_at
    /\ notified = <<>>

\* The existing port and the incoming port of the changed-fields example.
IsExamplePair(existing, updated) ==
    /\ existing # None
    /\ DOMAIN existing = DOMAIN updated
    /\ "status" \in DOMAIN existing
    /\ existing.id = "a" /\ existing.revision_number = 1
    /\ existing.name = "x" /\ existing.status = "up"
    /\ updated.id = "a" /\ updated.revision_number = 2
    /\ updated.name = "x" /\ updated.status = "down"

\* C6 (changed-field correctness): the changed_fields of every update
\* notification are exactly the fields, revision_number and updated_at
\* apart, in which the previous and the new snapshot differ, and all those
\* fields of the new snapshot when there was no previous one; the example
\* pair gives exactly {status}.
C6_ChangedFields ==
    \A i \in 1..Len(notified) :
        notified[i].event = "after_update" =>
            LET n == notified[i]
            IN  /\ n.changed_fields \cap IgnoredFields = {}
                /\ n.existing = None =>
                      n.changed_fields = DOMAIN n.updated \ IgnoredFields
                /\ n.existing # None =>
                      n.changed_fields = Differing(n.existing, n.updated)
                /\ IsExamplePair(n.existing, n.updated) =>
                      n.changed_fields = {"status"}

\* C6 witness: the example pair was notified with changed_fields {status}.
C6_Witness ==
    /\ Len(notified) = 1
    /\ notified[1].event = "after_update"
    /\ IsExamplePair(notified[1].existing, notified[1].updated)
    /\ notified[1].existing.updated_at # notified[1].updated.updated_at
    /\ notified[1].changed_fields = {"status"}

\* C7 (idempotent delete): every record_resource_delete on a tracked type
\* ends normally with one deletion notification that carries the entry it
\* removed (none for an id that was not live); a second call right after
\* the first notifies a previous snapshot of none and leaves the live
\* mappings and the tombstone sets as the first call left them.
C7_IdempotentDelete ==
    [][\A context \in Contexts, rtype \in TrackedTypes :
          \A resource_id \in Ids(rtype) :
             DeleteStep(context, rtype, resource_id) =>
                /\ call'.outcome = "Applied"
                /\ notified' = <<AfterDelete(context, rtype,
                                             get_resource_by_id(rtype, resource_id),
                                             resource_id)>>
                /\ resource_id \in _deleted_ids_by_type'[rtype]
                /\ resource_id \notin DOMAIN _cache_by_type_and_id'[rtype]
                /\ (DeleteCalled /\ call.rtype = rtype /\ call.resource_id = resource_id)
                      => /\ notified'[1].existing = None
                         /\ _cache_by_type_and_id' = _cache_by_type_and_id
                         /\ _deleted_ids_by_type' = _deleted_ids_by_type]_vars

\* C7 witness: the state after a delete of an id that is not live (the
\* state a second delete in a row ends in): one notification, no previous
\* snapshot, the id tombstoned.
C7_Witness ==
    /\ DeleteCalled
    /\ call.existing = None
    /\ Len(notified) = 1
    /\ notified[1].event = "after_delete"
    /\ notified[1].existing = None
    /\ call.resource_id \in _deleted_ids_by_type[call.rtype]
    /\ Stored = None

\* The two ways an incoming resource is stale: its id is tombstoned, or the
\* live entry has a strictly higher revision.
StaleDeleted(rtype, resource) == resource.id \in _deleted_ids_by_type[rtype]

StaleRevision(rtype, resource) ==
    LET before == get_resource_by_id(rtype, resource.id)
    IN  before # None /\ before.revision_number > resource.revision_number

\* The fields of the incoming resource that count as changed against the
\* live entry.
ChangedAgainst(before, resource) ==
    IF before = None
    THEN DOMAIN resource \ IgnoredFields
    ELSE Differing(before, resource)

\* C8: record_resource_update notifies once, with AFTER_UPDATE, exactly when
\* the incoming resource is not stale and differs from the live entry in a
\* field other than revision_number and updated_at; the notification
\* carries the entry live before the call (none for a first-seen id) and
\* the incoming resource, which is then the live entry.
C8_UpdateNotification ==
    [][\A context \in Contexts, rtype \in TrackedTypes :
          \A resource \in Resources(rtype) :
             LET before == get_resource_by_id(rtype, resource.id)
                 fresh == /\ ~StaleDeleted(rtype, resource)
                          /\ ~StaleRevision(rtype, resource)
             IN  UpdateStep(context, rtype, resource) =>
                    IF fresh /\ ChangedAgainst(before, resource) # {}
                    THEN /\ Len(notified') = 1
                         /\ notified'[1].event = "after_update"
                         /\ notified'[1].rtype = rtype
                         /\ notified'[1].resource_id = resource.id
                         /\ notified'[1].existing = before
                         /\ notified'[1].updated = resource
                         /\ dict_get(_cache_by_type_and_id'[rtype], resource.id)
                               = resource
                    ELSE notified' = <<>>]_vars

\* C8 witness: an update of a live entry was notified with the previous and
\* the new snapshot, the new one being live.
C8_Witness ==
    /\ UpdateCalled
    /\ Len(notified) = 1
    /\ notified[1].event = "after_update"
    /\ notified[1].existing # None
    /\ notified[1].existing = call.existing
    /\ notified[1].updated = Stored

\* C9, as claimed: a record_resource_update whose revision equals that of
\* the live entry is not ignored as stale, notifies nothing and leaves the
\* fields other than revision_number and updated_at as they were.
C9_EqualRevisionNoChange ==
    [][\A context \in Contexts, rtype \in TrackedTypes :
          \A resource \in Resources(rtype) :
             LET before == get_resource_by_id(rtype, resource.id)
                 after == dict_get(_cache_by_type_and_id'[rtype], resource.id)
             IN  (/\ UpdateStep(context, rtype, resource)
                  /\ ~StaleDeleted(rtype, resource)
                  /\ before # None
                  /\ before.revision_number = resource.revision_number)
                 => /\ call'.outcome \in {"Applied", "NoSemanticChange"}
                    /\ notified' = <<>>
                    /\ after # None
                    /\ Differing(before, after) = {}]_vars

\* C9, amended: a record_resource_update whose revision equals that of the
\* live entry of an id that is not tombstoned is not ignored as stale and
\* stores the incoming resource; it notifies nothing and leaves the fields
\* other than revision_number and updated_at as they were exactly when the
\* incoming resource equals the live entry in those fields, and otherwise
\* notifies once. For a tombstoned id it is ignored as StaleDeleted.
C9_EqualRevisionAccepted ==
    [][\A context \in Contexts, rtype \in TrackedTypes :
          \A resource \in Resources(rtype) :
             LET before == get_resource_by_id(rtype, resource.id)
                 after == dict_get(_cache_by_type_and_id'[rtype], resource.id)
             IN  (/\ UpdateStep(context, rtype, resource)
                  /\ before # None
                  /\ before.revision_number = resource.revision_number)
                 => IF StaleDeleted(rtype, resource)
                    THEN call'.outcome = "StaleDeleted" /\ notified' = <<>>
                    ELSE /\ call'.outcome \in {"Applied", "NoSemanticChange"}
                         /\ after = resource
                         /\ IF Differing(before, resource) = {}
                            THEN notified' = <<>> /\ Differing(before, after) = {}
                            ELSE Len(notified') = 1]_vars

\* C9 witness: an update of the revision of the live entry, with another
\* status, was stored and notified.
C9_Witness ==
    /\ UpdateCalled
    /\ call.outcome = "Applied"
    /\ call.existing # None
    /\ Stored # None
    /\ Stored.revision_number = call.existing.revision_number
    /\ Differing(call.existing, Stored) # {}
    /\ Len(notified) = 1

\* C10: a record_resource_update that is ignored as stale (the id is
\* tombstoned, or the live entry has a strictly higher revision) leaves the
\* live mappings and the tombstone sets of all types as they were and
\* notifies nothing.
C10_DiscardedUpdate ==
    [][\A context \in Contexts, rtype \in TrackedTypes :
          \A resource \in Resources(rtype) :
             (/\ UpdateStep(context, rtype, resource)
              /\ StaleDeleted(rtype, resource) \/ StaleRevision(rtype, resource))
             => /\ _cache_by_type_and_id' = _cache_by_type_and_id
                /\ _deleted_ids_by_type' = _deleted_ids_by_type
                /\ notified' = <<>>
                /\ call'.outcome \in {"StaleDeleted", "StaleRevision"}]_vars

\* C10 witness: an update below the live revision was ignored while the
\* other port and the network are live too.
C10_Witness ==
    /\ UpdateCalled
    /\ call.outcome = "StaleRevision"
    /\ notified = <<>>
    /\ Stored = call.existing
    /\ \A rtype \in TrackedTypes : _cache_by_type_and_id[rtype] # EmptyDict

\* This step is the call get_resource_by_id(rtype, obj_id).
GetStep(rtype, obj_id) ==
    /\ call'.op = "get_resource_by_id"
    /\ call'.rtype = rtype
    /\ call'.resource_id = obj_id
    /\ get_resource_by_id_call(rtype, obj_id)

\* This step is the call match_resources_with_func(rtype, matcher).
MatchStep(rtype, matcher) ==
    /\ call'.op = "match_resources_with_func"
    /\ call'.rtype = rtype
    /\ match_resources_with_func_call(rtype, matcher)

\* This step is the call get_resources(rtype, **filters).
FindStep(rtype, filters) ==
    /\ call'.op = "get_resources"
    /\ call'.rtype = rtype
    /\ get_resources_call(rtype, filters)

\* The ways a call on the cache raises.
Errors == {"KeyError", "RuntimeError"}

\* This step is a read addressed to the type.
ReadStep(rtype) ==
    /\ call'.rtype = rtype
    /\ \/ /\ call'.op = "get_resource_by_id"
          /\ \E obj_id \in Ids(rtype) : GetStep(rtype, obj_id)
       \/ /\ call'.op = "match_resources_with_func"
          /\ \E matcher \in Matchers : MatchStep(rtype, matcher)
       \/ /\ call'.op = "get_resources"
          /\ \E filters \in Filters(rtype) : FindStep(rtype, filters)

\* This step is a read, update or delete addressed to the type.
StoreStep(rtype) ==
    /\ call'.rtype = rtype
    /\ \/ ReadStep(rtype)
       \/ /\ call'.op = "record_resource_update"
          /\ \E context \in Contexts, resource \in Resources(rtype) :
                UpdateStep(context, rtype, resource)
       \/ /\ call'.op = "record_resource_delete"
          /\ \E context \in Contexts, resource_id \in Ids(rtype) :
                DeleteStep(context, rtype, resource_id)

\* C11: a get, find, update or delete addressed to an untracked type raises,
\* notifies nothing and leaves the live mappings, the tombstone sets and the
\* set of tracked types as they were; a get or find addressed to a tracked
\* type never raises.
C11_UnknownType ==
    [][/\ \A rtype \in UntrackedTypes :
             StoreStep(rtype)
             => /\ call'.outcome \in Errors
                /\ notified' = <<>>
                /\ _cache_by_type_and_id' = _cache_by_type_and_id
                /\ _deleted_ids_by_type' = _deleted_ids_by_type
                /\ DOMAIN _cache_by_type_and_id' = TrackedTypes
                /\ DOMAIN _deleted_ids_by_type' = TrackedTypes
       /\ \A rtype \in TrackedTypes :
             ReadStep(rtype) => call'.outcome = "Returned"]_vars

\* C11 witness: a delete addressed to the untracked type raised while the
\* cache holds live entries and a tombstone.
C11_Witness ==
    /\ call.op = "record_resource_delete"
    /\ call.rtype \in UntrackedTypes
    /\ call.outcome \in Errors
    /\ \E rtype \in TrackedTypes : _cache_by_type_and_id[rtype] # EmptyDict
    /\ \E rtype \in TrackedTypes : _deleted_ids_by_type[rtype] # {}

\* This step is a bulk_flood_cache (load runs: bulk_pull' holds its pulls).
BulkStep == call'.op = "bulk_flood_cache"

\* C12: a bulk_flood_cache whose bulk pull of a type raises ends with that
\* failure; every resource pulled for the types before the failing one is
\* live, the failing type and the types after it keep their live mapping,
\* and the calls that follow on the cache do not raise.
C12_PartialLoad ==
    [][/\ (BulkStep /\ bulk_pull'.fail_at # 0)
          => /\ call'.outcome = "PullError"
             /\ \A i \in 1..Len(resource_types) :
                   LET rtype == resource_types[i]
                       pull == bulk_pull'.pulls[i]
                   IN  IF i < bulk_pull'.fail_at
                       THEN \A k \in 1..Len(pull) :
                               /\ pull[k].id \in DOMAIN _cache_by_type_and_id'[rtype]
                               /\ _cache_by_type_and_id'[rtype][pull[k].id] = pull[k]
                       ELSE _cache_by_type_and_id'[rtype] = _cache_by_type_and_id[rtype]
       /\ (call.outcome = "PullError" /\ ~BulkStep)
          => call'.outcome \notin Errors]_vars

\* C12 witness: the bulk pull of the second type raised after a port was
\* pulled and stored, while the network loaded earlier is still live.
C12_Witness ==
    /\ call.op = "bulk_flood_cache"
    /\ call.outcome = "PullError"
    /\ bulk_pull.fail_at = 2
    /\ Len(bulk_pull.pulls[1]) > 0
    /\ _cache_by_type_and_id["port"] # EmptyDict
    /\ _cache_by_type_and_id["network"] # EmptyDict

\* What get_resource_by_id answers once this step is taken.
get_resource_by_id_after(rtype, obj_id) ==
    dict_get(_cache_by_type_and_id'[rtype], obj_id)

PulledIds(rtype) ==
    UNION {{bulk_pull.pulls[i][k].id : k \in 1..Len(bulk_pull.pulls[i])} :
             i \in {j \in 1..Len(resource_types) : resource_types[j] = rtype}}

\* C14: the record_resource_update that follows a bulk_flood_cache, for an
\* id the bulk load has written and with a revision at least the one the
\* bulk load wrote, becomes the live entry get_resource_by_id answers.
C14_SelfCorrecting ==
    [][call.op = "bulk_flood_cache" =>
         \A context \in Contexts, rtype \in TrackedTypes :
            \A resource \in Resources(rtype) :
               (/\ resource.id \in PulledIds(rtype)
                /\ resource.revision_number
                      >= get_resource_by_id(rtype, resource.id).revision_number
                /\ UpdateStep(context, rtype, resource))
               => get_resource_by_id_after(rtype, resource.id) = resource]_vars

\* This step is an update, a delete or a bulk load that addresses tracked
\* types other than rtype only (a bulk load: it pulled nothing for rtype).
OtherTypeStep(rtype) ==
    \/ /\ call'.op \in {"record_resource_update", "record_resource_delete"}
       /\ call'.rtype \in TrackedTypes \ {rtype}
    \/ /\ BulkStep
       /\ PulledIds(rtype)' = {}
       /\ \E other \in TrackedTypes \ {rtype} : PulledIds(other)' # {}

\* C15: get_resources and match_resources_with_func return exactly the
\* live resources of the type that the predicate accepts (for filters: whose
\* attribute equals the value asked for, for every key of the filters), they
\* leave the store as it was, and what they would return is the same before
\* and after an update, delete or bulk load addressed to another type (the
\* resources scanned are the same, or else every result is).
C15_Find ==
    [][\A rtype \in TrackedTypes :
          /\ call'.rtype = rtype /\ call'.op = "get_resources"
             => \A filters \in Filters(rtype) :
                   FindStep(rtype, filters)
                   => /\ call'.returned =
                            {_cache_by_type_and_id[rtype][i] :
                               i \in {j \in DOMAIN _cache_by_type_and_id[rtype] :
                                        \A k \in DOMAIN filters :
                                           _cache_by_type_and_id[rtype][j][k]
                                              = filters[k]}}
                      /\ _cache_by_type_and_id' = _cache_by_type_and_id
                      /\ _deleted_ids_by_type' = _deleted_ids_by_type
          /\ call'.rtype = rtype /\ call'.op = "match_resources_with_func"
             => \A matcher \in Matchers :
                   MatchStep(rtype, matcher)
                   => /\ call'.returned =
                            {_cache_by_type_and_id[rtype][i] :
                               i \in {j \in DOMAIN _cache_by_type_and_id[rtype] :
                                        matches(matcher,
                                                _cache_by_type_and_id[rtype][j])}}
                      /\ _cache_by_type_and_id' = _cache_by_type_and_id
                      /\ _deleted_ids_by_type' = _deleted_ids_by_type
          /\ OtherTypeStep(rtype)
             => \/ dict_values(_type_cache(rtype))' = dict_values(_type_cache(rtype))
                \/ /\ \A filters \in Filters(rtype) :
                         get_resources(rtype, filters)'
                            = get_resources(rtype, filters)
                   /\ \A matcher \in Matchers :
                         matched(rtype, matcher)' = matched(rtype, matcher)
      ]_vars

\* C15 witness: a get_resources on the ports returned one of the two live
\* ports while a network is live.
C15_Witness ==
    /\ call.op = "get_resources"
    /\ call.rtype = "port"
    /\ call.outcome = "Returned"
    /\ Cardinality(call.returned) = 1
    /\ Cardinality(DOMAIN _cache_by_type_and_id["port"]) = 2
    /\ _cache_by_type_and_id["network"] # EmptyDict

\* C16: while the listener works through a batch, every step it takes is
\* the call, for the next resource r of the batch in batch order, of
\* record_resource_delete(context, rtype, r.id) when the batch is of the
\* DELETED kind and of record_resource_update(context, rtype, r) otherwise,
\* with the store effect and the notifications of that call; the rest of
\* the batch stays as it was pushed, and entering and leaving the handler
\* neither writes nor notifies.
C16_BatchDispatch ==
    [][LET batch == listeners[BatchListener]
       IN  /\ (batch.pc = "loop" /\ batch.resources # <<>>)
              => LET r == Head(batch.resources)
                 IN  /\ IF batch.event_type = "deleted"
                        THEN DeleteStep(batch.context, batch.rtype, r.id)
                        ELSE UpdateStep(batch.context, batch.rtype, r)
                     /\ listeners'[BatchListener] =
                           [batch EXCEPT !.resources = Tail(batch.resources)]
           /\ (batch.pc = "idle" \/ batch.resources = <<>>)
              => /\ _cache_by_type_and_id' = _cache_by_type_and_id
                 /\ _deleted_ids_by_type' = _deleted_ids_by_type
                 /\ notified' = <<>>
                 /\ batch.pc = "idle"
                    => /\ listeners'[BatchListener].pc = "loop"
                       /\ listeners'[BatchListener].resources
                             \in Batches(listeners'[BatchListener].rtype)]_vars

\* C16 witness: in a batch of created resources the first one was stored
\* and notified, and the second one is still to come.
C16_Witness ==
    /\ listeners[BatchListener].pc = "loop"
    /\ listeners[BatchListener].event_type = "created"
    /\ Len(listeners[BatchListener].resources) = MaxBatch - 1
    /\ call.op = "record_resource_update"
    /\ call.outcome = "Applied"
    /\ Len(notified) = 1

\* C17: in the concurrent runs, whatever the interleaving of the statements
\* of the listeners' calls, a step never lowers the revision_number stored
\* for an id that is live before and after it.
C17_ConcurrentMonotonicity ==
    [][\A rtype \in TrackedTypes :
          \A i \in DOMAIN _cache_by_type_and_id[rtype]
                     \cap DOMAIN _cache_by_type_and_id'[rtype] :
             _cache_by_type_and_id'[rtype][i].revision_number
                >= _cache_by_type_and_id[rtype][i].revision_number]_vars

\* No listener is inside a record_resource_update or record_resource_delete.
Quiescent == \A l \in Listeners : listeners[l].pc \in {"idle", "loop"}

\* C18: in the concurrent runs, once the calls under way have completed, an
\* id that is in the deleted ids of its type has no live entry, whatever the
\* interleaving of the statements of the calls was.
C18_ConcurrentTombstone ==
    Quiescent
    => \A rtype \in TrackedTypes :
          \A i \in _deleted_ids_by_type[rtype] :
             i \notin DOMAIN _cache_by_type_and_id[rtype]

\* The updates delivered so far, as a set.
DeliveredUpdates ==
    {delivered[i].resource :
        i \in {j \in 1..Len(delivered) : delivered[j].resource # None}}

\* A delete was delivered.
DeliveredDelete == \E i \in 1..Len(delivered) : delivered[i].resource = None

\* The updates delivered carry pairwise distinct revisions.
DistinctRevisions ==
    \A u, v \in DeliveredUpdates : u.revision_number = v.revision_number => u = v

\* C19: after the events of a set for one id were delivered one after the
\* other, in any order and each once or more often, the updates carrying
\* pairwise distinct revisions, the id is absent and tombstoned if a delete
\* is among them, and otherwise live (and not tombstoned) with the update of
\* the highest revision; the outcome depends on the set alone.
C19_Convergence ==
    (delivered # <<>> /\ DistinctRevisions)
    => LET rtype == call.rtype
           live == get_resource_by_id(rtype, PushedId)
       IN  IF DeliveredDelete
           THEN live = None /\ PushedId \in _deleted_ids_by_type[rtype]
           ELSE /\ PushedId \notin _deleted_ids_by_type[rtype]
                /\ live \in DeliveredUpdates
                /\ \A u \in DeliveredUpdates :
                      u.revision_number <= live.revision_number

\* C19 witness: revision 5, then the delete, then revision 7 were delivered;
\* the last update was ignored and the id is absent.
C19_Witness ==
    /\ Len(delivered) = 3
    /\ delivered[1].resource # None
    /\ delivered[1].resource.revision_number = 5
    /\ delivered[2].resource = None
    /\ delivered[3].resource # None
    /\ delivered[3].resource.revision_number = 7
    /\ delivered[3].outcome = "StaleDeleted"
    /\ get_resource_by_id(call.rtype, PushedId) = None

\* C20: an id that is live stays live across every step (bulk load, update
\* accepted or ignored, get, find) but a record_resource_delete call for
\* its type and id, and after that call the id is in the deleted ids of
\* the type.
C20_Lifecycle ==
    [][\A rtype \in TrackedTypes :
          \A i \in DOMAIN _cache_by_type_and_id[rtype] :
             i \notin DOMAIN _cache_by_type_and_id'[rtype]
             => /\ \E context \in Contexts : DeleteStep(context, rtype, i)
                /\ i \in _deleted_ids_by_type'[rtype]]_vars

\* C20 witness: a delete removed a live port and tombstoned its id while
\* the other port and the network stayed live.
C20_Witness ==
    /\ DeleteCalled
    /\ call.rtype = "port"
    /\ call.existing # None
    /\ Stored = None
    /\ call.resource_id \in _deleted_ids_by_type["port"]
    /\ _cache_by_type_and_id["port"] # EmptyDict
    /\ _cache_by_type_and_id["network"] # EmptyDict

====
